---- MODULE Spec2Model ----
(***************************************************************************)
(* The AppKit event-loop coordinator (ApplicationDelegate / AppState) of   *)
(* src/src/platform_impl/apple/appkit/app_state.rs as a state machine.     *)
(*                                                                         *)
(* Everything runs on the main thread.  A method of the delegate runs      *)
(* without interruption until it hands control to a user callback; while   *)
(* the callback runs the application (and the native layer, which AppKit   *)
(* may re-enter synchronously) can call back into the delegate.  The model *)
(* therefore keeps the suspended methods on `stack`, one frame per user    *)
(* callback that is executing, and each action runs a method from its      *)
(* entry, or from the return of a callback, up to the next callback or to  *)
(* the method's end.                                                       *)
(***************************************************************************)
EXTENDS Integers, Sequences, FiniteSets, TLC

(* ------------------------------ bounds -------------------------------- *)
MaxWindows == 2
MaxTime == 2
MaxCallbacks == 2
MaxDeadline == 7

WindowId == 1..MaxWindows
Instant == 0..MaxTime

(* Option<Instant>::None *)
None == -1
OptInstant == {None} \cup Instant
(* The deadlines min_timeout is applied to on its own. *)
OptDeadline == {None} \cup (0..MaxDeadline)
(* min_timeout has not been applied yet. *)
Unset == None - 1

(* ControlFlow: Poll | Wait | WaitUntil(t) *)
Poll == [kind |-> "Poll", t |-> None]
Wait == [kind |-> "Wait", t |-> None]
WaitUntil(t) == [kind |-> "WaitUntil", t |-> t]
ControlFlow == {Poll, Wait} \cup {WaitUntil(t) : t \in Instant}

(* --------------------------- the state -------------------------------- *)
VARIABLES
    stop_on_launch, stop_before_wait, stop_after_wait, stop_on_redraw,
    is_launched, is_running, exit, control_flow, waker, start_time,
    wait_timeout, pending_redraw, proxy_wake_up,
    handler,      \* EventHandler: a handler is installed (inside set_event_handler)
    stack,        \* the suspended methods, one frame per executing user callback
    panicking,    \* PanicInfo::is_panicking()
    closures,     \* RunLoop: the closures queued with queue_closure, oldest first
    nudged,       \* RunLoop: wakeup() was requested and the loop has not woken yet
    now,          \* Instant::now()
    next_cb,      \* the next fresh identity of a maybe_queue_with_handler callback
    executed,     \* history: the maybe_queue_with_handler callbacks run, in order
    cur,          \* the outermost entry point running or just finished ("none": idle)
    trace,        \* history: what happened since `cur` was entered
    requested,    \* history: the windows passed to queue_redraw since the last drain
    drained,      \* history: `requested` as it was when `cur` took pending_redraw
    during,       \* history: the windows passed to queue_redraw by the callbacks of `cur`
    min_timeout_call, \* two deadlines and min_timeout of them, once it is applied
    ime           \* the X input method: Ime and its ImeInner (winit-x11)

vars == <<stop_on_launch, stop_before_wait, stop_after_wait, stop_on_redraw,
          is_launched, is_running, exit, control_flow, waker, start_time,
          wait_timeout, pending_redraw, proxy_wake_up, handler, stack,
          panicking, closures, nudged, now, next_cb, executed, cur, trace,
          requested, drained, during, min_timeout_call, ime>>

(* The state as one record, so that a method is a function from state to  *)
(* state.  `ctl` is not state: it tells the caller of with_handler whether *)
(* the method goes on ("run"), is suspended in a callback ("cb") or is     *)
(* being unwound by a panic ("unwind").                                    *)
St ==
    [stop_on_launch |-> stop_on_launch, stop_before_wait |-> stop_before_wait,
     stop_after_wait |-> stop_after_wait, stop_on_redraw |-> stop_on_redraw,
     is_launched |-> is_launched, is_running |-> is_running, exit |-> exit,
     control_flow |-> control_flow, waker |-> waker, start_time |-> start_time,
     wait_timeout |-> wait_timeout, pending_redraw |-> pending_redraw,
     proxy_wake_up |-> proxy_wake_up, handler |-> handler, stack |-> stack,
     panicking |-> panicking, closures |-> closures, nudged |-> nudged,
     now |-> now, next_cb |-> next_cb, executed |-> executed, cur |-> cur,
     trace |-> trace, requested |-> requested, drained |-> drained,
     during |-> during, ctl |-> "run"]

Commit(s) ==
    /\ stop_on_launch' = s.stop_on_launch
    /\ stop_before_wait' = s.stop_before_wait
    /\ stop_after_wait' = s.stop_after_wait
    /\ stop_on_redraw' = s.stop_on_redraw
    /\ is_launched' = s.is_launched
    /\ is_running' = s.is_running
    /\ exit' = s.exit
    /\ control_flow' = s.control_flow
    /\ waker' = s.waker
    /\ start_time' = s.start_time
    /\ wait_timeout' = s.wait_timeout
    /\ pending_redraw' = s.pending_redraw
    /\ proxy_wake_up' = s.proxy_wake_up
    /\ handler' = s.handler
    /\ stack' = s.stack
    /\ panicking' = s.panicking
    /\ closures' = s.closures
    /\ nudged' = s.nudged
    /\ now' = s.now
    /\ next_cb' = s.next_cb
    /\ executed' = s.executed
    /\ cur' = s.cur
    /\ trace' = s.trace
    /\ requested' = s.requested
    /\ drained' = s.drained
    /\ during' = s.during
    /\ UNCHANGED <<min_timeout_call, ime>>

(* ---------------------- events of the history ------------------------- *)
(* One record shape for every event: k the kind, a a window or callback    *)
(* identity or an armed deadline, and the three fields of a StartCause.    *)
Ev(k, a) == [k |-> k, a |-> a, cause |-> "", start |-> None, resume |-> None]
NewEvents(c) ==
    [k |-> "new_events", a |-> 0, cause |-> c.cause, start |-> c.start,
     resume |-> c.resume]
Returned == Ev("return", 0)
Stopped == Ev("stop", 0)
Panicked == Ev("panic", 0)
(* The cell refused the dispatch that method `op` asked for. *)
Refused(op) == [Ev("refused", 0) EXCEPT !.cause = op]

(* StartCause *)
CauseInit == [cause |-> "Init", start |-> None, resume |-> None]
CausePoll == [cause |-> "Poll", start |-> None, resume |-> None]
WaitCancelled(start, resume) ==
    [cause |-> "WaitCancelled", start |-> start, resume |-> resume]
ResumeTimeReached(start, resume) ==
    [cause |-> "ResumeTimeReached", start |-> start, resume |-> resume]

(* A frame: the method `op` is suspended in the callback `pc`; `redraw` is *)
(* what is left of the list cleared is iterating over, `a` the callback's  *)
(* argument.                                                               *)
Frame(op, pc, redraw, a) == [op |-> op, pc |-> pc, redraw |-> redraw, a |-> a]

(* -------------------- collaborators outside src/ ---------------------- *)
(* EventHandler::in_use: a handle call is on the stack. *)
in_use(s) == s.stack # <<>>

(* EventHandler::ready: a handler is installed and can be borrowed.  The   *)
(* guards of wakeup and cleared rely on it to "return when in event        *)
(* handler" (app_state.rs:326, 359), so it is false during a dispatch.     *)
ready(s) == s.handler /\ ~in_use(s)

(* A panic unwinds every suspended method and is recorded in PanicInfo. *)
unwind(s) ==
    [s EXCEPT !.stack = <<>>, !.panicking = TRUE, !.ctl = "unwind",
              !.trace = Append(@, Panicked)]

(* EventHandler::handle running the callback with no handler installed. *)
handle_without_handler(s, f, ev) ==
    IF in_use(s) THEN unwind([s EXCEPT !.trace = Append(@, Refused(f.op))])
    ELSE [s EXCEPT !.stack = Append(@, f), !.trace = Append(@, ev),
                   !.ctl = "cb",
                   !.executed = IF ev.k = "user" THEN Append(@, ev.a) ELSE @]

(* EventHandler::handle: refuses a second concurrent dispatch (the refusal *)
(* is a panic); with no handler installed there is nothing to pass to the  *)
(* callback, which takes the handler as its argument (app_state.rs:285),   *)
(* so it is not run; otherwise it runs with the installed handler.         *)
handle(s, f, ev) ==
    IF in_use(s) THEN unwind([s EXCEPT !.trace = Append(@, Refused(f.op))])
    ELSE IF ~s.handler THEN s
    ELSE [s EXCEPT !.stack = Append(@, f), !.trace = Append(@, ev),
                   !.ctl = "cb",
                   !.executed = IF ev.k = "user" THEN Append(@, ev.a) ELSE @]

(* stop_app_immediately: the native loop is told to stop. *)
stop_app_immediately(s) == [s EXCEPT !.trace = Append(@, Stopped)]

(* EventLoopWaker::start and start_at. *)
waker_start(s) ==
    [s EXCEPT !.waker = [started |-> TRUE, deadline |-> @.deadline],
              !.trace = Append(@, Ev("waker_start", 0))]
waker_start_at(s, deadline) ==
    [s EXCEPT !.waker = [started |-> @.started, deadline |-> deadline],
              !.trace = Append(@, Ev("start_at", deadline))]

(* RunLoop::wakeup and RunLoop::queue_closure. *)
run_loop_wakeup(s) == [s EXCEPT !.nudged = TRUE]
queue_closure(s, c) == [s EXCEPT !.closures = Append(@, c)]

(* ------------------------- app_state.rs ------------------------------- *)
with_handler(s, f, ev) == handle(s, f, ev)

set_is_running(s, value) == [s EXCEPT !.is_running = value]
set_stop_on_launch(s) == [s EXCEPT !.stop_on_launch = TRUE]
set_stop_before_wait(s, value) == [s EXCEPT !.stop_before_wait = value]
set_stop_after_wait(s, value) == [s EXCEPT !.stop_after_wait = value]
set_stop_on_redraw(s, value) == [s EXCEPT !.stop_on_redraw = value]
set_wait_timeout(s, value) == [s EXCEPT !.wait_timeout = value]
set_control_flow(s, value) == [s EXCEPT !.control_flow = value]
(* clear_exit leaving the request in place. *)
clear_exit_keep(s) == s

(* exit stopping the native loop itself. *)
request_exit_stop(s) == stop_app_immediately([s EXCEPT !.exit = TRUE])
request_exit(s) == [s EXCEPT !.exit = TRUE]
clear_exit(s) == [s EXCEPT !.exit = FALSE]

Min(a, b) == IF a <= b THEN a ELSE b

(* Option::min, for which None is the least value. *)
min_timeout_option_min(a, b) ==
    IF a = None \/ b = None THEN None ELSE Min(a, b)

(* min_timeout, lines 403-405. *)
min_timeout(a, b) ==
    IF a = None THEN b
    ELSE IF b = None THEN a
    ELSE Min(a, b)


(* did_finish_launching, lines 141-149: the pump bootstrap. *)
launch_stop(s) == IF s.stop_on_launch THEN stop_app_immediately(s) ELSE s

(* What the caller of dispatch_init_events does after it. *)
after_init_events(s, op) ==
    IF op = "did_finish_launching" THEN launch_stop(s) ELSE s

(* dispatch_init_events without its can_create_surfaces dispatch. *)
init_surfaces_skip(s, op) == after_init_events(s, op)

(* dispatch_init_events, line 316. *)
init_surfaces(s, op) ==
    LET s1 == with_handler(s, Frame(op, "can_create_surfaces", <<>>, 0),
                           Ev("can_create_surfaces", 0))
    IN  IF s1.ctl # "run" THEN s1 ELSE after_init_events(s1, op)

(* dispatch_init_events, line 313. *)
dispatch_init_events(s, op) ==
    LET s1 == with_handler(s, Frame(op, "new_events", <<>>, 0),
                           NewEvents(CauseInit))
    IN  IF s1.ctl # "run" THEN s1 ELSE init_surfaces(s1, op)

(* did_finish_launching stopping the application before the init events. *)
did_finish_launching_stop_first(s) ==
    LET s1 == [s EXCEPT !.is_launched = TRUE,
                        !.trace = Append(@, Ev("activate", 0))]
        s2 == waker_start(s1)
        s3 == set_is_running(s2, TRUE)
    IN  dispatch_init_events(launch_stop(s3), "did_finish_launching")

(* did_finish_launching, lines 110-134.  The activation policy, the        *)
(* activation and the default menu are native side effects, recorded as    *)
(* one event.                                                              *)
did_finish_launching(s) ==
    LET s1 == [s EXCEPT !.is_launched = TRUE,
                        !.trace = Append(@, Ev("activate", 0))]
        s2 == waker_start(s1)
        s3 == set_is_running(s2, TRUE)
    IN  dispatch_init_events(s3, "did_finish_launching")

(* internal_exit leaving the pump deadline in place. *)
internal_exit_reset_keep_timeout(s) ==
    set_stop_after_wait(
        set_stop_before_wait(
            set_stop_on_redraw(set_is_running(s, FALSE), FALSE),
            FALSE),
        FALSE)

(* internal_exit forgetting the launch as well. *)
internal_exit_reset_unlaunch(s) ==
    [set_wait_timeout(
         set_stop_after_wait(
             set_stop_before_wait(
                 set_stop_on_redraw(set_is_running(s, FALSE), FALSE),
                 FALSE),
             FALSE),
         None) EXCEPT !.is_launched = FALSE]

(* internal_exit, lines 216-220. *)
internal_exit_reset(s) ==
    set_wait_timeout(
        set_stop_after_wait(
            set_stop_before_wait(
                set_stop_on_redraw(set_is_running(s, FALSE), FALSE),
                FALSE),
            FALSE),
        None)

(* internal_exit resetting the session state before it dispatches exiting. *)
internal_exit_reset_first(s) ==
    with_handler(internal_exit_reset(s),
                 Frame("internal_exit", "exiting", <<>>, 0),
                 Ev("exiting", 0))

(* internal_exit, lines 211-221. *)
internal_exit(s) ==
    LET s1 == with_handler(s, Frame("internal_exit", "exiting", <<>>, 0),
                           Ev("exiting", 0))
    IN  IF s1.ctl # "run" THEN s1 ELSE internal_exit_reset(s1)

(* handle_redraw consuming its checkpoint once it has signalled the stop. *)
handle_redraw_stop_once(s) ==
    IF s.stop_on_redraw
    THEN set_stop_on_redraw(stop_app_immediately(s), FALSE)
    ELSE s

(* handle_redraw, lines 267-270. *)
handle_redraw_stop(s) ==
    IF s.stop_on_redraw THEN stop_app_immediately(s) ELSE s

(* handle_redraw signalling the stop before the dispatch as well. *)
handle_redraw_stop_first(s, window_id) ==
    IF ~in_use(s)
    THEN with_handler(handle_redraw_stop(s),
                      Frame("handle_redraw", "window_event", <<>>, window_id),
                      Ev("window_event", window_id))
    ELSE s

(* handle_redraw recording the request when a dispatch is in progress. *)
handle_redraw_queue_when_busy(s, window_id) ==
    IF ~in_use(s)
    THEN LET s1 == with_handler(s, Frame("handle_redraw", "window_event",
                                         <<>>, window_id),
                                Ev("window_event", window_id))
         IN  IF s1.ctl # "run" THEN s1 ELSE handle_redraw_stop(s1)
    ELSE IF \E i \in 1..Len(s.pending_redraw) :
                s.pending_redraw[i] = window_id
         THEN s
         ELSE [s EXCEPT !.pending_redraw = Append(@, window_id)]

(* handle_redraw, lines 255-272. *)
handle_redraw(s, window_id) ==
    IF ~in_use(s)
    THEN LET s1 == with_handler(s, Frame("handle_redraw", "window_event",
                                         <<>>, window_id),
                                Ev("window_event", window_id))
         IN  IF s1.ctl # "run" THEN s1 ELSE handle_redraw_stop(s1)
    ELSE s

(* Vec::contains *)
Contains(seq, x) == \E i \in 1..Len(seq) : seq[i] = x

(* queue_redraw pushing without looking. *)
queue_redraw_push(s, window_id) ==
    run_loop_wakeup([s EXCEPT !.pending_redraw = Append(@, window_id)])

(* queue_redraw that leaves the run loop asleep. *)
queue_redraw_no_wakeup(s, window_id) ==
    IF ~Contains(s.pending_redraw, window_id)
    THEN [s EXCEPT !.pending_redraw = Append(@, window_id)]
    ELSE s

(* queue_redraw, lines 274-280. *)
queue_redraw(s, window_id) ==
    LET s1 == IF ~Contains(s.pending_redraw, window_id)
              THEN [s EXCEPT !.pending_redraw = Append(@, window_id)]
              ELSE s
    IN  run_loop_wakeup(s1)

(* maybe_queue_with_handler without its in_use check. *)
maybe_queue_with_handler_inline(s, callback) ==
    with_handler(s, Frame("maybe_queue_with_handler", "user", <<>>,
                          callback),
                 Ev("user", callback))

(* maybe_queue_with_handler forgetting the callback it cannot run. *)
maybe_queue_with_handler_drop(s, callback) ==
    IF ~in_use(s)
    THEN with_handler(s, Frame("maybe_queue_with_handler", "user", <<>>,
                               callback),
                      Ev("user", callback))
    ELSE s

(* maybe_queue_with_handler, lines 283-302. *)
maybe_queue_with_handler(s, callback) ==
    IF ~in_use(s)
    THEN with_handler(s, Frame("maybe_queue_with_handler", "user", <<>>,
                               callback),
                      Ev("user", callback))
    ELSE queue_closure(s, callback)

(* The closure queued at lines 298-300, when the run loop runs it. *)
queued_closure(s, callback) ==
    with_handler(s, Frame("queued_closure", "user", <<>>, callback),
                 Ev("user", callback))

(* wakeup comparing the wake instant with > instead of >=. *)
start_cause_strict(cf, start, instant_now) ==
    CASE cf.kind = "Poll" -> CausePoll
      [] cf.kind = "Wait" -> WaitCancelled(start, None)
      [] cf.kind = "WaitUntil" ->
            IF instant_now > cf.t
            THEN ResumeTimeReached(start, cf.t)
            ELSE WaitCancelled(start, cf.t)

(* wakeup, lines 337-347. *)
start_cause(cf, start, instant_now) ==
    CASE cf.kind = "Poll" -> CausePoll
      [] cf.kind = "Wait" -> WaitCancelled(start, None)
      [] cf.kind = "WaitUntil" ->
            IF instant_now >= cf.t
            THEN ResumeTimeReached(start, cf.t)
            ELSE WaitCancelled(start, cf.t)

(* wakeup signalling the stop before it looks at its guards. *)
wakeup_stop_first(s) ==
    LET s1 == IF s.stop_after_wait THEN stop_app_immediately(s) ELSE s
    IN  IF s.panicking \/ ~ready(s) \/ ~s.is_running THEN s1
        ELSE IF s1.start_time = None THEN unwind(s1)
        ELSE with_handler(s1, Frame("wakeup", "new_events", <<>>, 0),
                          NewEvents(start_cause(s1.control_flow,
                                                s1.start_time, s1.now)))

(* wakeup returning once it has signalled the stop. *)
wakeup_stop_returns(s) ==
    IF s.panicking \/ ~ready(s) \/ ~s.is_running THEN s
    ELSE IF s.stop_after_wait THEN stop_app_immediately(s)
    ELSE IF s.start_time = None THEN unwind(s)
    ELSE with_handler(s, Frame("wakeup", "new_events", <<>>, 0),
                      NewEvents(start_cause(s.control_flow,
                                            s.start_time, s.now)))

(* wakeup, lines 320-350.  start_time.get().unwrap() panics on None. *)
wakeup(s) ==
    IF s.panicking \/ ~ready(s) \/ ~s.is_running THEN s
    ELSE LET s1 == IF s.stop_after_wait THEN stop_app_immediately(s) ELSE s
         IN  IF s1.start_time = None THEN unwind(s1)
             ELSE with_handler(s1, Frame("wakeup", "new_events", <<>>, 0),
                               NewEvents(start_cause(s1.control_flow,
                                                     s1.start_time, s1.now)))

(* app_timeout treating Poll like Wait. *)
app_timeout_poll_unbounded(cf, instant_now) ==
    CASE cf.kind = "Wait" -> None
      [] cf.kind = "Poll" -> None
      [] cf.kind = "WaitUntil" -> cf.t

(* cleared, lines 391-395. *)
app_timeout(cf, instant_now) ==
    CASE cf.kind = "Wait" -> None
      [] cf.kind = "Poll" -> instant_now
      [] cf.kind = "WaitUntil" -> cf.t

(* cleared going to sleep without recording when the wait began. *)
cleared_finish_no_start(s) ==
    LET s1 == IF s.exit THEN stop_app_immediately(s) ELSE s
        s2 == IF s1.stop_before_wait THEN stop_app_immediately(s1) ELSE s1
    IN  waker_start_at(s2, min_timeout(s2.wait_timeout,
                                       app_timeout(s2.control_flow, s2.now)))

(* cleared emptying pending_redraw once it has iterated, not before. *)
cleared_finish_clear(s) ==
    LET s1 == IF s.exit THEN stop_app_immediately(s) ELSE s
        s2 == IF s1.stop_before_wait THEN stop_app_immediately(s1) ELSE s1
        s3 == [s2 EXCEPT !.start_time = s2.now, !.pending_redraw = <<>>]
    IN  waker_start_at(s3, min_timeout(s3.wait_timeout,
                                       app_timeout(s3.control_flow, s3.now)))

(* cleared not going to sleep when it has signalled a stop. *)
cleared_finish_no_sleep(s) ==
    LET s1 == IF s.exit THEN stop_app_immediately(s) ELSE s
        s2 == IF s1.stop_before_wait THEN stop_app_immediately(s1) ELSE s1
        s3 == [s2 EXCEPT !.start_time = s2.now]
    IN  IF s.exit \/ s.stop_before_wait THEN s2
        ELSE waker_start_at(s3, min_timeout(s3.wait_timeout,
                                            app_timeout(s3.control_flow, s3.now)))

(* cleared, lines 380-396. *)
cleared_finish(s) ==
    LET s1 == IF s.exit THEN stop_app_immediately(s) ELSE s
        s2 == IF s1.stop_before_wait THEN stop_app_immediately(s1) ELSE s1
        s3 == [s2 EXCEPT !.start_time = s2.now]
    IN  waker_start_at(s3, min_timeout(s3.wait_timeout,
                                       app_timeout(s3.control_flow, s3.now)))

(* cleared signalling the exit stop before it dispatches about_to_wait. *)
cleared_about_to_wait_stop_first(s) ==
    LET s0 == IF s.exit THEN stop_app_immediately(s) ELSE s
        s1 == with_handler(s0, Frame("cleared", "about_to_wait", <<>>, 0),
                           Ev("about_to_wait", 0))
    IN  IF s1.ctl # "run" THEN s1 ELSE cleared_finish(s1)

(* cleared, lines 376-378. *)
cleared_about_to_wait(s) ==
    LET s1 == with_handler(s, Frame("cleared", "about_to_wait", <<>>, 0),
                           Ev("about_to_wait", 0))
    IN  IF s1.ctl # "run" THEN s1 ELSE cleared_finish(s1)

(* cleared, lines 371-375: the loop over the list taken. *)
RECURSIVE cleared_redraw(_, _)
cleared_redraw(s, redraw) ==
    IF redraw = <<>> THEN cleared_about_to_wait(s)
    ELSE LET s1 == with_handler(s, Frame("cleared", "window_event",
                                         Tail(redraw), Head(redraw)),
                                Ev("window_event", Head(redraw)))
         IN  IF s1.ctl # "run" THEN s1 ELSE cleared_redraw(s1, Tail(redraw))

(* cleared iterating over pending_redraw without taking it. *)
cleared_take_clone(s) ==
    cleared_redraw([s EXCEPT !.drained = s.requested, !.requested = {}],
                   s.pending_redraw)

(* cleared, line 370: mem::take. *)
cleared_take(s) ==
    cleared_redraw([s EXCEPT !.pending_redraw = <<>>,
                             !.drained = s.requested, !.requested = {}],
                   s.pending_redraw)

(* cleared that never looks at the proxy-wake flag. *)
cleared_ignore_proxy(s) ==
    IF s.panicking \/ ~ready(s) \/ ~s.is_running THEN s
    ELSE cleared_take(s)

(* cleared reading the proxy-wake flag without swapping it to false. *)
cleared_no_swap(s) ==
    IF s.panicking \/ ~ready(s) \/ ~s.is_running THEN s
    ELSE LET s1 == IF s.proxy_wake_up
                   THEN with_handler(s,
                                     Frame("cleared", "proxy_wake_up", <<>>, 0),
                                     Ev("proxy_wake_up", 0))
                   ELSE s
         IN  IF s1.ctl # "run" THEN s1 ELSE cleared_take(s1)

(* cleared consuming the proxy-wake flag before it looks at its guards. *)
cleared_swap_first(s) ==
    IF s.panicking \/ ~ready(s) \/ ~s.is_running
    THEN [s EXCEPT !.proxy_wake_up = FALSE]
    ELSE LET s1 == IF s.proxy_wake_up
                   THEN with_handler([s EXCEPT !.proxy_wake_up = FALSE],
                                     Frame("cleared", "proxy_wake_up", <<>>, 0),
                                     Ev("proxy_wake_up", 0))
                   ELSE s
         IN  IF s1.ctl # "run" THEN s1 ELSE cleared_take(s1)

(* cleared, lines 353-368. *)
cleared(s) ==
    IF s.panicking \/ ~ready(s) \/ ~s.is_running THEN s
    ELSE LET s1 == IF s.proxy_wake_up
                   THEN with_handler([s EXCEPT !.proxy_wake_up = FALSE],
                                     Frame("cleared", "proxy_wake_up", <<>>, 0),
                                     Ev("proxy_wake_up", 0))
                   ELSE s
         IN  IF s1.ctl # "run" THEN s1 ELSE cleared_take(s1)

(* The rest of the method suspended in frame f, once its callback returned. *)
resume(s, f) ==
    CASE f.pc = "new_events" /\ f.op # "wakeup" -> init_surfaces(s, f.op)
      [] f.pc = "can_create_surfaces" -> after_init_events(s, f.op)
      [] f.op = "cleared" /\ f.pc = "proxy_wake_up" -> cleared_take(s)
      [] f.op = "cleared" /\ f.pc = "window_event" -> cleared_redraw(s, f.redraw)
      [] f.op = "cleared" /\ f.pc = "about_to_wait" -> cleared_finish(s)
      [] f.op = "handle_redraw" -> handle_redraw_stop(s)
      [] f.op = "internal_exit" -> internal_exit_reset(s)
      [] OTHER -> s

(* ----------------------------- actions -------------------------------- *)
Idle == cur = "none"
InCallback == stack # <<>>
(* An entry point can be called from the run loop when nothing runs, or    *)
(* from inside a running callback.                                         *)
CanCall == Idle \/ InCallback
Begin(op) == IF stack = <<>> THEN [St EXCEPT !.cur = op] ELSE St

(* ------------------ the X input method (winit-x11) -------------------- *)
(* Ime of src/winit-x11/src/ime/mod.rs with the ImeInner it owns           *)
(* (inner.rs).  All XIM calls happen on one thread, so every method is one *)
(* step.  `ime` holds the fields of ImeInner the methods read and write,   *)
(* and of the method called last: its name and window, what it returned,   *)
(* the events it sent on event_sender and the native XDestroyIC /          *)
(* XCloseIM calls it made.                                                 *)
(* ImeContext (context.rs) is not among the sources: whether               *)
(* ImeContext::new succeeds, and what is_allowed() of the context it makes *)
(* reports, are inputs of the methods that call it.                        *)

(* The XICs one input method creates. *)
MaxContexts == 2

(* HashMap<Window, Option<ImeContext>>: no entry, Some(None), Some(Some).  *)
Absent == [kind |-> "absent", ic |-> 0, allowed |-> FALSE, spot |-> FALSE]
Placeholder == [kind |-> "none", ic |-> 0, allowed |-> FALSE, spot |-> FALSE]
Context(ic, allowed) ==
    [kind |-> "some", ic |-> ic, allowed |-> allowed, spot |-> FALSE]

(* Result<bool, _>, Option<XIC> and bool as the caller sees them. *)
OkTrue == "Ok(true)"
OkFalse == "Ok(false)"
Err == "Err"
Unit == "()"

(* What ImeContext::new can do: fail, or make a context whose             *)
(* is_allowed() is either value.                                           *)
NewContext ==
    {[ok |-> FALSE, allowed |-> FALSE]}
        \cup {[ok |-> TRUE, allowed |-> b] : b \in BOOLEAN}

(* The orders in which HashMap::values can visit the windows. *)
IterOrder ==
    {o \in [1..MaxWindows -> WindowId] :
        \A i, j \in 1..MaxWindows : o[i] = o[j] => i = j}

(* ImeInner::new, lines 35-50, then Ime::new storing the opened method.    *)
ImeNew ==
    [is_destroyed |-> FALSE, im |-> TRUE,
     contexts |-> [w \in WindowId |-> Absent],
     events |-> <<>>, native |-> {}, next_ic |-> 1, dropped |-> FALSE,
     op |-> "new", window |-> 0, ret |-> Unit]

is_destroyed(m) == m.is_destroyed

NativeCall(call, ic, ok) == [call |-> call, ic |-> ic, ok |-> ok]

(* destroy_ic_if_necessary destroying the XIC of a destroyed input method. *)
destroy_ic_unconditionally(m, ic, ok) ==
    [m EXCEPT !.native = @ \cup {NativeCall("destroy_ic", ic, ok)},
              !.ret = IF ok THEN OkTrue ELSE Err]

(* inner.rs, lines 60-66; ok: XDestroyIC raised no X error. *)
destroy_ic_if_necessary(m, ic, ok) ==
    IF ~m.is_destroyed
    THEN [m EXCEPT !.native = @ \cup {NativeCall("destroy_ic", ic, ok)},
                   !.ret = IF ok THEN OkTrue ELSE Err]
    ELSE [m EXCEPT !.ret = OkFalse]

(* inner.rs, lines 52-58; ok: XCloseIM raised no X error. *)
close_im_if_necessary(m, ok) ==
    IF ~m.is_destroyed /\ m.im
    THEN [m EXCEPT !.native = @ \cup {NativeCall("close_im", 0, ok)},
                   !.ret = IF ok THEN OkTrue ELSE Err]
    ELSE [m EXCEPT !.ret = OkFalse]

(* inner.rs, lines 68-73: the loop from the i-th window of `order` on;     *)
(* bad: the window whose XDestroyIC raises an X error (0: none does; the   *)
(* loop ends at the first error, so one is enough).                        *)
RECURSIVE destroy_all_from(_, _, _, _)
destroy_all_from(m, order, i, bad) ==
    IF i > Len(order)
    THEN [m EXCEPT !.ret = IF ~m.is_destroyed THEN OkTrue ELSE OkFalse]
    ELSE LET c == m.contexts[order[i]]
         IN  IF c.kind # "some"
             THEN destroy_all_from(m, order, i + 1, bad)
             ELSE LET r == destroy_ic_if_necessary(m, c.ic, order[i] # bad)
                  IN  IF r.ret = Err THEN r
                      ELSE destroy_all_from(r, order, i + 1, bad)

destroy_all_contexts_if_necessary(m, order, bad) ==
    destroy_all_from(m, order, 1, bad)

(* create_context leaving a placeholder behind when ImeContext::new fails. *)
create_context_insert_on_error(m, window, with_ime, new) ==
    LET context == IF is_destroyed(m) \/ ~new.ok THEN Placeholder
                   ELSE Context(m.next_ic, new.allowed)
        event == IF context.allowed THEN "Enabled" ELSE "Disabled"
        m1 == IF is_destroyed(m) \/ ~new.ok THEN m
              ELSE [m EXCEPT !.next_ic = @ + 1,
                             !.events = Append(@, <<window, event>>)]
        m2 == [m1 EXCEPT !.contexts[window] = context]
    IN  [m2 EXCEPT !.ret = IF is_destroyed(m) THEN OkFalse
                           ELSE IF new.ok THEN OkTrue ELSE Err]

(* mod.rs, lines 120-150; new: what ImeContext::new does. *)
create_context(m, window, with_ime, new) ==
    IF ~is_destroyed(m) /\ ~new.ok
    THEN [m EXCEPT !.ret = Err]
    ELSE LET context == IF is_destroyed(m) THEN Placeholder
                        ELSE Context(m.next_ic, new.allowed)
             event == IF context.allowed THEN "Enabled" ELSE "Disabled"
             m1 == IF is_destroyed(m) THEN m
                   ELSE [m EXCEPT !.next_ic = @ + 1,
                                  !.events = Append(@, <<window, event>>)]
             m2 == [m1 EXCEPT !.contexts[window] = context]
         IN  [m2 EXCEPT !.ret = IF ~is_destroyed(m2) THEN OkTrue ELSE OkFalse]

(* mod.rs, lines 152-161: Option<XIC> as the ic, or None. *)
get_context(m, window) ==
    IF is_destroyed(m) THEN None
    ELSE IF m.contexts[window].kind = "some" THEN m.contexts[window].ic
    ELSE None

(* mod.rs, lines 163-172: the entry is removed before the XIC is destroyed. *)
remove_context(m, window, ok) ==
    LET c == m.contexts[window]
        m1 == [m EXCEPT !.contexts[window] = Absent]
    IN  IF c.kind = "some"
        THEN LET r == destroy_ic_if_necessary(m1, c.ic, ok)
             IN  IF r.ret = Err THEN r ELSE [r EXCEPT !.ret = OkTrue]
        ELSE [m1 EXCEPT !.ret = OkFalse]

(* mod.rs, lines 174-183; ok: ImeContext::focus raised no X error. *)
focus(m, window, ok) ==
    IF is_destroyed(m) THEN [m EXCEPT !.ret = OkFalse]
    ELSE IF m.contexts[window].kind = "some"
    THEN [m EXCEPT !.ret = IF ok THEN OkTrue ELSE Err]
    ELSE [m EXCEPT !.ret = OkFalse]

(* mod.rs, lines 185-194. *)
unfocus(m, window, ok) ==
    IF is_destroyed(m) THEN [m EXCEPT !.ret = OkFalse]
    ELSE IF m.contexts[window].kind = "some"
    THEN [m EXCEPT !.ret = IF ok THEN OkTrue ELSE Err]
    ELSE [m EXCEPT !.ret = OkFalse]

(* mod.rs, lines 196-203: ImeContext::set_area moves the context's spot. *)
send_xim_area(m, window) ==
    IF is_destroyed(m) THEN [m EXCEPT !.ret = Unit]
    ELSE IF m.contexts[window].kind = "some"
    THEN [m EXCEPT !.contexts[window].spot = TRUE, !.ret = Unit]
    ELSE [m EXCEPT !.ret = Unit]

(* set_ime_allowed replacing the context even when it already has the      *)
(* value asked for.                                                        *)
set_ime_allowed_always(m, window, allowed, ok, new) ==
    IF is_destroyed(m) THEN [m EXCEPT !.ret = Unit]
    ELSE LET m1 == remove_context(m, window, ok)
             m2 == create_context(m1, window, allowed, new)
         IN  [m2 EXCEPT !.ret = Unit]

(* mod.rs, lines 205-221: both results are discarded. *)
set_ime_allowed(m, window, allowed, ok, new) ==
    IF is_destroyed(m) THEN [m EXCEPT !.ret = Unit]
    ELSE IF /\ m.contexts[window].kind = "some"
            /\ allowed = m.contexts[window].allowed
    THEN [m EXCEPT !.ret = Unit]
    ELSE LET m1 == remove_context(m, window, ok)
             m2 == create_context(m1, window, allowed, new)
         IN  [m2 EXCEPT !.ret = Unit]

(* mod.rs, lines 223-231. *)
is_ime_allowed(m, window) ==
    IF is_destroyed(m) THEN FALSE
    ELSE IF m.contexts[window].kind = "some" THEN m.contexts[window].allowed
    ELSE FALSE

(* Drop for Ime, mod.rs lines 234-240: both results are discarded. *)
drop(m, order, bad, ok) ==
    LET m1 == destroy_all_contexts_if_necessary(m, order, bad)
        m2 == close_im_if_necessary(m1, ok)
    IN  [m2 EXCEPT !.dropped = TRUE, !.ret = Unit]

Init ==
    /\ stop_on_launch = FALSE /\ stop_before_wait = FALSE
    /\ stop_after_wait = FALSE /\ stop_on_redraw = FALSE
    /\ is_launched = FALSE /\ is_running = FALSE /\ exit = FALSE
    /\ control_flow = Wait
    /\ waker = [started |-> FALSE, deadline |-> None]
    /\ start_time = None /\ wait_timeout = None
    /\ pending_redraw = <<>> /\ proxy_wake_up = FALSE
    /\ handler = FALSE /\ stack = <<>> /\ panicking = FALSE
    /\ closures = <<>> /\ nudged = FALSE /\ now = 0
    /\ next_cb = 1 /\ executed = <<>> /\ cur = "none" /\ trace = <<>>
    /\ requested = {} /\ drained = {} /\ during = {}
    /\ min_timeout_call = [a |-> None, b |-> None, r |-> Unset]
    /\ ime = ImeNew

(* applicationDidFinishLaunching: delivered once, by the first native run, *)
(* which the event loop starts with its handler installed, the exit        *)
(* request of an earlier use cleared as for every session it starts.       *)
Launch ==
    /\ Idle /\ ~is_launched /\ handler
    /\ Commit(did_finish_launching(
                  clear_exit(Begin("did_finish_launching"))))

(* A further session that runs the launch again. *)
StartSession_relaunch ==
    /\ Idle /\ is_launched /\ ~is_running /\ handler /\ ~panicking
    /\ Commit(did_finish_launching(clear_exit(Begin("start_session"))))

(* A further session on the launched application. *)
StartSession ==
    /\ Idle /\ is_launched /\ ~is_running /\ handler /\ ~panicking
    /\ Commit(dispatch_init_events(
                  set_is_running(clear_exit(Begin("start_session")), TRUE),
                  "start_session"))

Wakeup ==
    /\ CanCall
    /\ Commit(wakeup([Begin("wakeup") EXCEPT !.nudged = FALSE]))

Cleared == CanCall /\ Commit(cleared(Begin("cleared")))

HandleRedraw(w) == CanCall /\ Commit(handle_redraw(Begin("handle_redraw"), w))

QueueRedraw(w) ==
    /\ CanCall
    /\ Commit([queue_redraw(Begin("queue_redraw"), w) EXCEPT
                   !.requested = @ \cup {w},
                   !.during = IF InCallback THEN @ \cup {w} ELSE @])

(* A window's delegate reporting a native event; windows are created from *)
(* inside callbacks, so there is none before the launch.                  *)
MaybeQueueWithHandler ==
    /\ CanCall /\ is_launched /\ next_cb <= MaxCallbacks
    /\ Commit(maybe_queue_with_handler(
                  [Begin("maybe_queue_with_handler") EXCEPT !.next_cb = @ + 1],
                  next_cb))

RunQueuedClosure ==
    /\ Idle /\ closures # <<>>
    /\ Commit(queued_closure(
                  [Begin("queued_closure") EXCEPT !.closures = Tail(@)],
                  Head(closures)))

(* applicationWillTerminate, or the event loop ending its session. *)
InternalExit == CanCall /\ Commit(internal_exit(Begin("internal_exit")))

(* The running callback returns. *)
Return ==
    /\ InCallback
    /\ Commit(resume([St EXCEPT !.stack = SubSeq(@, 1, Len(@) - 1),
                                !.trace = Append(@, Returned)],
                     stack[Len(stack)]))

(* The running callback panics. *)
Panic == InCallback /\ Commit(unwind(St))

(* The owner of the run loop re-raises the recorded panic, out of the      *)
(* closure of set_event_handler.                                           *)
ResumeUnwind ==
    /\ Idle /\ panicking
    /\ Commit([St EXCEPT !.panicking = FALSE, !.handler = FALSE])

(* The outermost entry point has returned to the run loop. *)
ReturnToRunLoop ==
    /\ cur # "none" /\ stack = <<>>
    /\ Commit([St EXCEPT !.cur = "none", !.trace = <<>>, !.drained = {},
                         !.during = {}])

(* set_event_handler: the handler is installed for the closure's duration. *)
SetEventHandler == Idle /\ ~handler /\ ~panicking /\ Commit([St EXCEPT !.handler = TRUE])
EndEventHandler == Idle /\ handler /\ ~panicking /\ Commit([St EXCEPT !.handler = FALSE])

(* The application, from inside a callback. *)
Exit == InCallback /\ Commit(request_exit(St))
SetControlFlow(cf) == InCallback /\ Commit(set_control_flow(St, cf))

(* An EventLoopProxy, from any thread. *)
ProxyWake == TRUE /\ Commit([St EXCEPT !.proxy_wake_up = TRUE])

(* The pump-mode caller, between two runs of the native loop. *)
SetStopOnLaunch == Idle /\ Commit(set_stop_on_launch(St))
SetStopBeforeWait(v) == Idle /\ Commit(set_stop_before_wait(St, v))
SetStopAfterWait(v) == Idle /\ Commit(set_stop_after_wait(St, v))
SetStopOnRedraw(v) == Idle /\ Commit(set_stop_on_redraw(St, v))
SetWaitTimeout(v) == Idle /\ Commit(set_wait_timeout(St, v))

Tick == now < MaxTime /\ Commit([St EXCEPT !.now = @ + 1])

(* What every specification has: the native notifications, the          *)
(* callbacks' return or panic, and the handler's lifetime.                *)
Lifecycle ==
    \/ Launch \/ Wakeup \/ Cleared \/ InternalExit
    \/ Return \/ Panic \/ ResumeUnwind \/ ReturnToRunLoop
    \/ SetEventHandler \/ EndEventHandler

Redraw ==
    \/ \E w \in WindowId : HandleRedraw(w)
    \/ \E w \in WindowId : QueueRedraw(w)

(* The loop with its redraw requests, proxy wakes, exit requests and      *)
(* further sessions.                                                      *)
Next == Lifecycle \/ Redraw \/ StartSession \/ Exit \/ ProxyWake

Spec == Init /\ [][Next]_vars

(* Reentrancy: the loop, the redraw requests and the deferred dispatch. *)
NextDefer == Lifecycle \/ Redraw \/ MaybeQueueWithHandler \/ RunQueuedClosure

SpecDefer == Init /\ [][NextDefer]_vars

(* Pump mode: the loop and the pump-mode caller's checkpoints. *)
NextPump ==
    \/ Lifecycle
    \/ \E w \in WindowId : HandleRedraw(w)
    \/ StartSession \/ Exit
    \/ SetStopOnLaunch
    \/ \E v \in BOOLEAN : SetStopBeforeWait(v)
    \/ \E v \in BOOLEAN : SetStopAfterWait(v)
    \/ \E v \in BOOLEAN : SetStopOnRedraw(v)
    \/ \E v \in OptInstant : SetWaitTimeout(v)

SpecPump == Init /\ [][NextPump]_vars

(* Time: the loop, the clock, the control flow and the pump deadline. *)
NextTime ==
    \/ Lifecycle
    \/ \E cf \in ControlFlow : SetControlFlow(cf)
    \/ \E v \in OptInstant : SetWaitTimeout(v)
    \/ Tick

SpecTime == Init /\ [][NextTime]_vars

(* Proxy wakes: the loop and the proxies of other threads.  The native run *)
(* loop calls cleared before every wait, a callback that does not panic   *)
(* returns, and a method that has nothing left to do returns to the loop. *)
NextProxy == Lifecycle \/ ProxyWake

SpecProxy ==
    /\ Init /\ [][NextProxy]_vars
    /\ SF_vars(Cleared) /\ WF_vars(Return) /\ WF_vars(ReturnToRunLoop)

(* The end of a cycle: the loop, the clock, the exit request, the pump's  *)
(* stop_before_wait checkpoint and the two deadlines.                     *)
NextSleep ==
    \/ Lifecycle
    \/ Exit
    \/ \E v \in BOOLEAN : SetStopBeforeWait(v)
    \/ \E cf \in ControlFlow : SetControlFlow(cf)
    \/ \E v \in OptInstant : SetWaitTimeout(v)
    \/ Tick

SpecSleep == Init /\ [][NextSleep]_vars

(* The native run loop under ControlFlow::Wait with no timer armed: it    *)
(* sleeps until it is nudged, then reports the end of the wait (wakeup)   *)
(* and, its sources served, the start of the next wait (cleared); the     *)
(* launch is followed by the first cleared in the same way.               *)
LoopWakeup == nudged /\ Idle /\ Wakeup
LoopCleared ==
    /\ cur \in {"wakeup", "did_finish_launching"} /\ stack = <<>>
    /\ Commit(cleared([St EXCEPT !.cur = "cleared", !.trace = <<>>,
                                 !.drained = {}, !.during = {}]))
LoopSleep == cur \notin {"wakeup", "did_finish_launching"} /\ ReturnToRunLoop

NextNudge ==
    \/ SetEventHandler \/ Launch
    \/ LoopWakeup \/ LoopCleared \/ LoopSleep
    \/ Return
    \/ \E w \in WindowId : QueueRedraw(w)

(* A callback returns and the loop goes on when it can; a nudged loop     *)
(* wakes even if queue_redraw keeps being called from the loop's thread. *)
SpecNudge ==
    /\ Init /\ [][NextNudge]_vars
    /\ SF_vars(LoopWakeup) /\ WF_vars(LoopCleared) /\ WF_vars(LoopSleep)
    /\ WF_vars(Return)

(* Checkpoints: the loop, the eager redraw, the pump-mode caller's stop    *)
(* flags and deadline, and the application's control flow and exit request. *)
NextCheckpoint ==
    \/ Lifecycle
    \/ \E w \in WindowId : HandleRedraw(w)
    \/ Exit
    \/ \E cf \in ControlFlow : SetControlFlow(cf)
    \/ SetStopOnLaunch
    \/ \E v \in BOOLEAN : SetStopBeforeWait(v)
    \/ \E v \in BOOLEAN : SetStopAfterWait(v)
    \/ \E v \in BOOLEAN : SetStopOnRedraw(v)
    \/ \E v \in OptInstant : SetWaitTimeout(v)

SpecCheckpoint == Init /\ [][NextCheckpoint]_vars

(* The order of the native run loop: it calls cleared before it waits and *)
(* wakeup when the wait is over, so every wakeup from the loop follows a  *)
(* cleared with nothing in between; everything else (the launch, the      *)
(* sessions, the handler's lifetime, internal_exit) happens while the     *)
(* loop is awake or not running.  A loop run from inside a callback calls *)
(* both from there.                                                       *)
Asleep == cur = "cleared" /\ stack = <<>>
AfterWaiting ==
    /\ Asleep
    /\ Commit(wakeup([St EXCEPT !.cur = "wakeup", !.trace = <<>>,
                                !.drained = {}, !.during = {},
                                !.nudged = FALSE]))
NestedWakeup == InCallback /\ Wakeup
Awake == ~Asleep /\ ReturnToRunLoop

NextRunLoop ==
    \/ SetEventHandler \/ EndEventHandler
    \/ Launch \/ StartSession \/ InternalExit
    \/ Cleared \/ AfterWaiting \/ NestedWakeup \/ Awake
    \/ Return \/ Panic \/ ResumeUnwind
    \/ \E cf \in ControlFlow : SetControlFlow(cf)
    \/ Tick

SpecRunLoop == Init /\ [][NextRunLoop]_vars

(* Redraws: the loop, the eager and the queued redraw, and the pump-mode  *)
(* caller's stop_on_redraw checkpoint.                                    *)
NextRedraw == Lifecycle \/ Redraw \/ \E v \in BOOLEAN : SetStopOnRedraw(v)

SpecRedraw == Init /\ [][NextRedraw]_vars

(* The input method on its own: the window code calls the methods of Ime   *)
(* in any order, the X server can destroy the input method at any time     *)
(* (the destroy callback registered by Ime::new sets is_destroyed), and    *)
(* dropping the Ime ends its life.                                         *)
AppStateVars ==
    <<stop_on_launch, stop_before_wait, stop_after_wait, stop_on_redraw,
      is_launched, is_running, exit, control_flow, waker, start_time,
      wait_timeout, pending_redraw, proxy_wake_up, handler, stack, panicking,
      closures, nudged, now, next_cb, executed, cur, trace, requested,
      drained, during, min_timeout_call>>

(* The input method as a method finds it when it is entered. *)
Entered == [ime EXCEPT !.events = <<>>, !.native = {}]

ImeCall(m, op, window) ==
    /\ ~ime.dropped
    /\ ime' = [m EXCEPT !.op = op, !.window = window]
    /\ UNCHANGED AppStateVars

CreateContext(window, with_ime, new) ==
    /\ ime.next_ic <= MaxContexts
    /\ ImeCall(create_context(Entered, window, with_ime, new),
               "create_context", window)

GetContext(window) ==
    ImeCall([Entered EXCEPT !.ret = IF get_context(Entered, window) = None
                                 THEN "None" ELSE "Some"],
            "get_context", window)

RemoveContext(window, ok) ==
    ImeCall(remove_context(Entered, window, ok), "remove_context", window)

Focus(window, ok) == ImeCall(focus(Entered, window, ok), "focus", window)

Unfocus(window, ok) == ImeCall(unfocus(Entered, window, ok), "unfocus", window)

SendXimArea(window) ==
    ImeCall(send_xim_area(Entered, window), "send_xim_area", window)

SetImeAllowed(window, allowed, ok, new) ==
    /\ ime.next_ic <= MaxContexts
    /\ ImeCall(set_ime_allowed(Entered, window, allowed, ok, new),
               "set_ime_allowed", window)

IsImeAllowed(window) ==
    ImeCall([Entered EXCEPT !.ret = IF is_ime_allowed(Entered, window)
                                 THEN "true" ELSE "false"],
            "is_ime_allowed", window)

XimDestroyed ==
    /\ ~ime.is_destroyed
    /\ ImeCall([Entered EXCEPT !.is_destroyed = TRUE, !.ret = Unit],
               "xim_destroy_callback", 0)

DropIme ==
    \E order \in IterOrder, bad \in {0} \cup WindowId, ok \in BOOLEAN :
        ImeCall(drop(Entered, order, bad, ok), "drop", 0)

NextIme ==
    \/ \E w \in WindowId, with_ime \in BOOLEAN, new \in NewContext :
          CreateContext(w, with_ime, new)
    \/ \E w \in WindowId : GetContext(w)
    \/ \E w \in WindowId, ok \in BOOLEAN : RemoveContext(w, ok)
    \/ \E w \in WindowId, ok \in BOOLEAN : Focus(w, ok)
    \/ \E w \in WindowId, ok \in BOOLEAN : Unfocus(w, ok)
    \/ \E w \in WindowId : SendXimArea(w)
    \/ \E w \in WindowId, allowed, ok \in BOOLEAN, new \in NewContext :
          SetImeAllowed(w, allowed, ok, new)
    \/ \E w \in WindowId : IsImeAllowed(w)
    \/ XimDestroyed
    \/ DropIme

SpecIme == Init /\ [][NextIme]_vars

(* min_timeout on its own: any two deadlines, then the function applied. *)
InitMinTimeout ==
    /\ stop_on_launch = FALSE /\ stop_before_wait = FALSE
    /\ stop_after_wait = FALSE /\ stop_on_redraw = FALSE
    /\ is_launched = FALSE /\ is_running = FALSE /\ exit = FALSE
    /\ control_flow = Wait
    /\ waker = [started |-> FALSE, deadline |-> None]
    /\ start_time = None /\ wait_timeout = None
    /\ pending_redraw = <<>> /\ proxy_wake_up = FALSE
    /\ handler = FALSE /\ stack = <<>> /\ panicking = FALSE
    /\ closures = <<>> /\ nudged = FALSE /\ now = 0
    /\ next_cb = 1 /\ executed = <<>> /\ cur = "none" /\ trace = <<>>
    /\ requested = {} /\ drained = {} /\ during = {}
    /\ min_timeout_call \in [a : OptDeadline, b : OptDeadline, r : {Unset}]
    /\ ime = ImeNew

ApplyMinTimeout ==
    /\ min_timeout_call.r = Unset
    /\ min_timeout_call' =
          [min_timeout_call EXCEPT
              !.r = min_timeout(min_timeout_call.a, min_timeout_call.b)]
    /\ UNCHANGED <<stop_on_launch, stop_before_wait, stop_after_wait,
                   stop_on_redraw, is_launched, is_running, exit, control_flow,
                   waker, start_time, wait_timeout, pending_redraw,
                   proxy_wake_up, handler, stack, panicking, closures, nudged,
                   now, next_cb, executed, cur, trace, requested, drained,
                   during, ime>>

SpecMinTimeout == InitMinTimeout /\ [][ApplyMinTimeout]_vars

(* ------------------------- the claims --------------------------------- *)
NoDup(seq) == \A i, j \in 1..Len(seq) : i # j => seq[i] # seq[j]
Range(seq) == {seq[i] : i \in 1..Len(seq)}
HasEvent(k) == \E i \in 1..Len(trace) : trace[i].k = k
(* The outermost entry point `op` has returned, and not by a panic. *)
Completed(op) == cur = op /\ stack = <<>> /\ ~HasEvent("panic")

(* C1: at most one user callback is executing in every reachable state,   *)
(* whatever the sequence and nesting of the entry points; and the entry   *)
(* points that look at the cell before they dispatch never ask it for a   *)
(* second dispatch: the only dispatch the cell has to refuse is the one   *)
(* of an internal_exit made from inside a callback.                       *)
C1_OneDispatch ==
    /\ Len(stack) <= 1
    /\ \A i \in 1..Len(trace) :
          trace[i].k = "refused" => trace[i].cause = "internal_exit"

(* A callback of cleared is running and a reentrant call was deferred. *)
C1_Witness ==
    /\ Len(stack) = 1 /\ stack[1].op = "cleared" /\ closures # <<>>

(* Only maybe_queue_with_handler takes a fresh callback identity. *)
MqhStep == next_cb' = next_cb + 1

(* The step runs the closure at the head of the run loop's queue. *)
ClosureStep == closures # <<>> /\ closures' = Tail(closures)

(* C2, as amended: a callback passed to maybe_queue_with_handler during a *)
(* dispatch is appended to the run loop's queue and not run inline; the   *)
(* queue is only ever appended to or popped at its head, and it is popped *)
(* when no dispatch is on the stack, so deferred callbacks run after the  *)
(* outer dispatch and in enqueue order; no callback runs twice.  A        *)
(* callback runs (inline when no dispatch is in progress, or when its     *)
(* closure is popped) exactly when a handler is installed at that moment; *)
(* without one it is not run, and inline nothing is enqueued either way.  *)
C2_Step ==
    /\ MqhStep /\ InCallback =>
          /\ closures' = Append(closures, next_cb)
          /\ executed' = executed /\ stack' = stack
    /\ MqhStep /\ ~InCallback =>
          /\ closures' = closures
          /\ executed' = IF handler THEN Append(executed, next_cb) ELSE executed
    /\ ~MqhStep =>
          \/ closures' = closures /\ executed' = executed
          \/ /\ ClosureStep /\ stack = <<>>
             /\ executed' = IF handler THEN Append(executed, Head(closures))
                            ELSE executed

C2_StepOriginal ==
    /\ MqhStep /\ InCallback =>
          /\ closures' = Append(closures, next_cb)
          /\ executed' = executed /\ stack' = stack
    /\ MqhStep /\ ~InCallback =>
          /\ closures' = closures
          /\ executed' = Append(executed, next_cb)
    /\ ~MqhStep =>
          \/ closures' = closures /\ executed' = executed
          \/ /\ ClosureStep /\ stack = <<>>
             /\ executed' = Append(executed, Head(closures))

RedrawCount(w) ==
    Cardinality({i \in 1..Len(trace) :
                    trace[i].k = "window_event" /\ trace[i].a = w})

(* cleared passed its guards and returned. *)
ClearedCycle == Completed("cleared") /\ HasEvent("start_at")

(* C3: a cleared that passes its guards dispatches exactly one            *)
(* RedrawRequested to each window requested with queue_redraw since the   *)
(* last drain, however often it was requested, and none to any other      *)
(* window; if nothing was requested during that cleared, pending_redraw   *)
(* is empty when it returns.                                              *)
C3_RedrawOncePerWindow ==
    ClearedCycle =>
        /\ \A w \in WindowId : RedrawCount(w) = IF w \in drained THEN 1 ELSE 0
        /\ requested = {} => pending_redraw = <<>>

(* A cleared has drained two windows and nothing was requested meanwhile. *)
C3_Witness ==
    ClearedCycle /\ Cardinality(drained) >= 2 /\ requested = {}

(* C4: pending_redraw never holds the same window twice. *)
C4_NoDuplicates == NoDup(pending_redraw)

(* A callback of a draining cleared has requested redraws that are pending. *)
C4_Witness ==
    /\ Len(stack) = 1 /\ stack[1].op = "cleared"
    /\ stack[1].pc = "window_event"
    /\ Len(pending_redraw) >= 2 /\ stack[1].a \in Range(pending_redraw)

(* cleared has taken pending_redraw and is in, or past, its drain. *)
AfterTake ==
    \/ ClearedCycle
    \/ /\ cur = "cleared" /\ stack # <<>>
       /\ stack[1].pc \in {"window_event", "about_to_wait"}

(* C5, as amended: a queue_redraw(w) made by a callback once cleared has  *)
(* taken pending_redraw (from a RedrawRequested or the about_to_wait      *)
(* dispatch) is not lost and not dispatched by this drain: the windows    *)
(* pending from the take on are exactly those requested since, and this   *)
(* drain dispatches only to windows taken, once each.  A queue_redraw(w)  *)
(* made from the proxy_wake_up dispatch comes before the take: w is       *)
(* dispatched by this same drain.                                         *)
C5_RequestedWhileDraining ==
    /\ AfterTake =>
          /\ Range(pending_redraw) = requested
          /\ \A w \in WindowId : RedrawCount(w) <= IF w \in drained THEN 1 ELSE 0
    /\ ClearedCycle =>
          /\ \A w \in drained : RedrawCount(w) = 1
          /\ \A w \in during : w \in requested \/ w \in drained

(* C5 as stated: whatever a callback of this cleared requested, the       *)
(* proxy_wake_up callback included, is pending when cleared returns.      *)
C5_Original == ClearedCycle => during \subseteq Range(pending_redraw)

(* A drained window was requested again during the drain and is pending. *)
C5_Witness ==
    ClearedCycle /\ \E w \in drained : w \in requested /\ w \in Range(pending_redraw)

Last(seq) == seq[Len(seq)]
IsPrefix(p, seq) == Len(p) <= Len(seq) /\ SubSeq(seq, 1, Len(p)) = p

(* The step is a wakeup from the run loop that dispatches new_events. *)
WakeupDispatch == cur' = "wakeup" /\ stack = <<>> /\ stack' # <<>>

(* C6: the StartCause wakeup passes to new_events depends on control_flow *)
(* and the wake instant only: Poll gives Poll; Wait gives                 *)
(* WaitCancelled{start, None}; WaitUntil(t) gives                         *)
(* ResumeTimeReached{start, t} if and only if now >= t, and otherwise     *)
(* WaitCancelled{start, Some(t)}; start is the instant the preceding      *)
(* cleared recorded in start_time.                                        *)
C6_Step ==
    WakeupDispatch =>
        LET e == Last(trace')
        IN  /\ e.k = "new_events"
            /\ start_time # None
            /\ control_flow.kind = "Poll" => e.cause = "Poll"
            /\ control_flow.kind = "Wait" =>
                  e.cause = "WaitCancelled" /\ e.start = start_time
                  /\ e.resume = None
            /\ control_flow.kind = "WaitUntil" =>
                  /\ e.start = start_time /\ e.resume = control_flow.t
                  /\ e.cause \in {"ResumeTimeReached", "WaitCancelled"}
                  /\ e.cause = "ResumeTimeReached" <=> now >= control_flow.t

C6_StartCause == [][C6_Step]_vars

(* wakeup ran exactly at the requested instant: ResumeTimeReached. *)
C6_Witness ==
    /\ Len(stack) = 1 /\ stack[1].op = "wakeup"
    /\ Last(trace).cause = "ResumeTimeReached"
    /\ Last(trace).resume = now /\ Last(trace).start < now

(* C7: min_timeout takes None for an infinite deadline: with None on one  *)
(* side the result is the other side, and of two deadlines it is the      *)
(* earlier one.                                                           *)
C7_MinTimeout ==
    LET a == min_timeout_call.a
        b == min_timeout_call.b
        r == min_timeout_call.r
    IN  r # Unset =>
            /\ a = None => r = b
            /\ b = None => r = a
            /\ a # None /\ b # None => r = IF a <= b THEN a ELSE b

(* min_timeout was applied to a missing and a present deadline. *)
C7_Witness ==
    /\ min_timeout_call.r # Unset /\ min_timeout_call.a = None
    /\ min_timeout_call.b # None /\ min_timeout_call.r = min_timeout_call.b

(* C8, as amended: when internal_exit has returned, is_running,           *)
(* stop_before_wait, stop_after_wait and stop_on_redraw are false and     *)
(* wait_timeout is None, whatever they were; stop_on_launch is not reset: *)
(* internal_exit leaves it as it was.                                     *)
C8_Reset ==
    Completed("internal_exit") =>
        /\ ~is_running /\ ~stop_before_wait /\ ~stop_after_wait
        /\ ~stop_on_redraw /\ wait_timeout = None

C9_Step ==
    /\ is_launched => is_launched'
    /\ cur = "none" /\ cur' = "did_finish_launching" => is_launched'
    /\ ~is_launched /\ is_launched' => cur' = "did_finish_launching"

C9_LaunchedForever == ~is_launched /\ [][C9_Step]_vars

(* A further session starts on the launched application. *)
C9_Witness == is_launched /\ cur = "start_session" /\ stack # <<>>

(* What the launch does, in order, when no callback panics. *)
LaunchTrace ==
    <<Ev("activate", 0), Ev("waker_start", 0), NewEvents(CauseInit), Returned,
      Ev("can_create_surfaces", 0), Returned>>
    \o (IF stop_on_launch THEN <<Stopped>> ELSE <<>>)

Added ==
    IF cur = "none" THEN trace'
    ELSE SubSeq(trace', Len(trace) + 1, Len(trace'))
AddedEvent(k) == \E i \in 1..Len(Added) : Added[i].k = k
AddedCount(k) == Cardinality({i \in 1..Len(Added) : Added[i].k = k})

(* The events that are the dispatch of a user callback. *)
DispatchKinds ==
    {"new_events", "can_create_surfaces", "window_event", "proxy_wake_up",
     "about_to_wait", "exiting", "user"}
IsInit(e) == e.k = "new_events" /\ e.cause = "Init"

(* C11: the launch side effects (activation policy, activation, default   *)
(* menu, waker start) happen only in a step that takes is_launched from   *)
(* false to true, once in that step, and is_launched never goes back to   *)
(* false: so they happen at most once, however many sessions are ended    *)
(* with internal_exit and started again; the waker is started exactly     *)
(* when the application is launched.                                      *)
C11_Step ==
    /\ is_launched => is_launched'
    /\ AddedEvent("activate") \/ AddedEvent("waker_start") =>
          /\ ~is_launched /\ is_launched'
          /\ AddedCount("activate") = 1 /\ AddedCount("waker_start") = 1

C11_LaunchEffectsOnce == [](waker.started <=> is_launched) /\ [][C11_Step]_vars

(* A second session has run its init events on the launched application. *)
C11_Witness ==
    /\ Completed("start_session") /\ is_launched /\ is_running
    /\ HasEvent("can_create_surfaces") /\ ~HasEvent("waker_start")

(* C12: in the history of every entry point, new_events(Init) that        *)
(* returned is followed at once by the dispatch of can_create_surfaces,   *)
(* can_create_surfaces is dispatched only right after new_events(Init)    *)
(* returned, and no other callback is dispatched between the two; and a   *)
(* step that starts a session (is_running from false to true) dispatches  *)
(* new_events(Init) in that very step, before any other callback.         *)
C12_Paired ==
    \A i \in 1..Len(trace) :
        /\ IsInit(trace[i]) /\ i < Len(trace) =>
              /\ trace[i + 1].k \notin DispatchKinds
              /\ trace[i + 1] = Returned =>
                    i + 2 <= Len(trace) /\ trace[i + 2].k = "can_create_surfaces"
        /\ trace[i].k = "can_create_surfaces" =>
              i >= 3 /\ trace[i - 1] = Returned /\ IsInit(trace[i - 2])

C12_Step ==
    ~is_running /\ is_running' =>
        /\ Len(stack') = 1 /\ stack'[1].pc = "new_events"
        /\ IsInit(Last(trace'))
        /\ \A i \in 1..(Len(Added) - 1) : Added[i].k \notin DispatchKinds

CoordVars ==
    <<stop_on_launch, stop_before_wait, stop_after_wait, stop_on_redraw,
      is_launched, is_running, exit, control_flow, waker, start_time,
      wait_timeout, pending_redraw, proxy_wake_up>>
(* The callbacks dispatched, queued and run, the stops signalled, the panics. *)
DispatchVars == <<handler, stack, panicking, closures, executed, trace>>

(* The guards of wakeup and cleared make them return. *)
Guarded == panicking \/ ~(handler /\ stack = <<>>) \/ ~is_running
(* The run loop calls `op`, which passes its guards. *)
Passes(op) == cur = "none" /\ cur' = op /\ ~Guarded

(* C13: a wakeup made while a panic is propagating, or while no handler   *)
(* is ready, or while is_running is false, dispatches no callback,        *)
(* signals no stop (stop_after_wait set or not) and changes no field of   *)
(* the coordinator.                                                       *)
C13_Step == Wakeup /\ Guarded => UNCHANGED <<CoordVars, DispatchVars>>

C13_WakeupGuards == [][C13_Step]_vars

(* A wakeup has returned on the panic guard with stop_after_wait set. *)
C13_Witness ==
    /\ cur = "wakeup" /\ stack = <<>> /\ trace = <<>>
    /\ stop_after_wait /\ panicking /\ handler /\ is_running

(* C14: a cleared made under the same three guards consumes no proxy-wake *)
(* flag, takes nothing from pending_redraw, dispatches no callback,       *)
(* signals no stop, records no start_time and does not re-arm the waker.  *)
(* The flag goes from true to false, and pending_redraw is emptied, only  *)
(* in a cleared that passes its guards, and such a cleared dispatches     *)
(* proxy_wake_up first if the flag is set and otherwise starts on the     *)
(* pending redraws at once: what was requested while guarded is delivered *)
(* by the first later cleared that passes.                                *)
C14_Step ==
    /\ Cleared /\ Guarded => UNCHANGED <<CoordVars, DispatchVars>>
    /\ proxy_wake_up /\ ~proxy_wake_up' => Passes("cleared")
    /\ Len(pending_redraw') < Len(pending_redraw) =>
          /\ pending_redraw' = <<>>
          /\ \/ Passes("cleared") /\ ~proxy_wake_up
             \/ /\ stack # <<>> /\ Last(stack).op = "cleared"
                /\ Last(stack).pc = "proxy_wake_up"
    /\ Passes("cleared") /\ proxy_wake_up =>
          /\ Len(stack') = 1 /\ stack'[1].pc = "proxy_wake_up"
          /\ pending_redraw' = pending_redraw
    /\ Passes("cleared") /\ ~proxy_wake_up /\ pending_redraw # <<>> =>
          /\ Len(stack') = 1 /\ stack'[1].pc = "window_event"
          /\ stack'[1].a = Head(pending_redraw)
          /\ stack'[1].redraw = Tail(pending_redraw)

C14_ClearedGuards == [][C14_Step]_vars

(* A cleared has returned on the is_running guard with a proxy wake and a *)
(* redraw waiting.                                                        *)
C14_Witness ==
    /\ cur = "cleared" /\ stack = <<>> /\ trace = <<>>
    /\ ~is_running /\ handler /\ ~panicking
    /\ proxy_wake_up /\ pending_redraw # <<>>

(* The dispatches in the history of the running entry point. *)
Dispatches == {i \in 1..Len(trace) : trace[i].k \in DispatchKinds}

(* C15: a wakeup that passes its guards (with the start_time of an        *)
(* earlier cleared to report) dispatches new_events, once, and if         *)
(* stop_after_wait is set it has signalled the native loop to stop before *)
(* that: the stop does not suppress the dispatch, and without             *)
(* stop_after_wait no stop is signalled.  wakeup dispatches nothing else  *)
(* and changes no field of the coordinator.                               *)
C15_Step ==
    Passes("wakeup") /\ start_time # None =>
        /\ Len(stack') = 1 /\ stack'[1].op = "wakeup"
        /\ stack'[1].pc = "new_events"
        /\ Len(trace') = IF stop_after_wait THEN 2 ELSE 1
        /\ Last(trace').k = "new_events"
        /\ stop_after_wait => trace'[1] = Stopped
        /\ UNCHANGED CoordVars

Rank(e) ==
    CASE e.k = "proxy_wake_up" -> 1
      [] e.k = "window_event" -> 2
      [] e.k = "about_to_wait" -> 3
      [] e.k = "stop" -> 4
      [] e.k = "start_at" -> 5
      [] OTHER -> 0

(* C16: in the history of a cleared the events come in this order:        *)
(* proxy_wake_up (at most once, and first), the RedrawRequested events,   *)
(* about_to_wait (once), and only when about_to_wait has returned the     *)
(* stop signal and the re-arming of the waker; one callback runs at a     *)
(* time, each having returned before the next is dispatched; a cleared    *)
(* that passed its guards and returned dispatched about_to_wait exactly   *)
(* once, as its last callback.                                            *)
C16_ClearedOrder ==
    cur = "cleared" =>
        /\ \A i, j \in 1..Len(trace) :
              i < j /\ Rank(trace[i]) > 0 /\ Rank(trace[j]) > 0 =>
                  /\ Rank(trace[i]) <= Rank(trace[j])
                  /\ Rank(trace[i]) \in {1, 3, 5} =>
                        Rank(trace[i]) < Rank(trace[j])
        /\ \A i \in Dispatches :
              i < Len(trace) => trace[i + 1].k \in {"return", "panic", "refused"}
        /\ \A j \in 1..Len(trace) :
              Rank(trace[j]) \in {4, 5} =>
                  \E i \in 1..(j - 2) :
                      trace[i].k = "about_to_wait" /\ trace[i + 1] = Returned
        /\ ClearedCycle =>
              \E i \in Dispatches :
                  /\ trace[i].k = "about_to_wait"
                  /\ \A j \in Dispatches : j <= i

(* A cleared ran the whole cycle: proxy wake, two redraws, about_to_wait, *)
(* the exit stop and the re-arming.                                       *)
C16_Witness ==
    /\ ClearedCycle /\ Len(trace) = 10
    /\ trace[1].k = "proxy_wake_up" /\ trace[3].k = "window_event"
    /\ trace[5].k = "window_event" /\ trace[7].k = "about_to_wait"
    /\ trace[9] = Stopped /\ trace[10].k = "start_at"

(* C17: cleared dispatches proxy_wake_up exactly when the flag is true as *)
(* it passes its guards; the dispatch and the change of the flag to false *)
(* are one step (the swap); nothing else takes the flag from true to      *)
(* false and nothing else dispatches proxy_wake_up; one cleared           *)
(* dispatches it at most once, as its first callback.                     *)
C17_Step ==
    /\ proxy_wake_up /\ ~proxy_wake_up' =>
          Passes("cleared") /\ AddedCount("proxy_wake_up") = 1
    /\ AddedEvent("proxy_wake_up") =>
          /\ Passes("cleared") /\ proxy_wake_up /\ ~proxy_wake_up'
          /\ Added[1].k = "proxy_wake_up"
          /\ Len(stack') = 1 /\ stack'[1].pc = "proxy_wake_up"
    /\ Passes("cleared") =>
          (proxy_wake_up <=> AddedEvent("proxy_wake_up"))

C17_ProxySwap ==
    /\ [](Cardinality({i \in 1..Len(trace) : trace[i].k = "proxy_wake_up"}) <= 1)
    /\ [][C17_Step]_vars

(* The proxy_wake_up callback is running and the swap left the flag false. *)
C17_Witness ==
    /\ Len(stack) = 1 /\ stack[1].op = "cleared"
    /\ stack[1].pc = "proxy_wake_up" /\ ~proxy_wake_up

(* C18: a proxy wake is not lost: from any state in which the flag is set *)
(* (whenever the store landed, before a cleared, or after the swap of a   *)
(* cleared in progress), while the session runs with a handler installed  *)
(* and no panic, the flag is eventually consumed, unless the session      *)
(* ends, the handler is removed or a callback panics first; and the flag  *)
(* is consumed only by a step that dispatches proxy_wake_up.              *)
C18_NoLostWake ==
    /\ (proxy_wake_up /\ is_running /\ handler /\ ~panicking)
          ~> (~proxy_wake_up \/ ~is_running \/ ~handler \/ panicking)
    /\ [][proxy_wake_up /\ ~proxy_wake_up' =>
             /\ AddedEvent("proxy_wake_up")
             /\ Len(stack') = 1 /\ stack'[1].pc = "proxy_wake_up"]_vars

(* The flag was set again after the swap of a cleared that is still in    *)
(* its about_to_wait callback.                                            *)
C18_Witness ==
    /\ Len(stack) = 1 /\ stack[1].op = "cleared"
    /\ stack[1].pc = "about_to_wait"
    /\ HasEvent("proxy_wake_up") /\ proxy_wake_up

(* The about_to_wait callback of a cleared returns: cleared runs to its end. *)
FinishStep ==
    /\ stack # <<>> /\ Last(stack).op = "cleared"
    /\ Last(stack).pc = "about_to_wait"
    /\ stack' = <<>> /\ ~panicking'

(* C19: exit() sets the exit flag and nothing else: no callback is        *)
(* dispatched, no stop signalled, no other field changed; only exit()     *)
(* sets the flag.  The request takes effect in cleared: when the          *)
(* about_to_wait callback of a cleared has returned, the native loop is   *)
(* told to stop if the flag is set, and (no pump checkpoint being set) is *)
(* not told to stop if it is not.                                         *)
C19_Step ==
    /\ Exit =>
          /\ exit'
          /\ UNCHANGED <<stop_on_launch, stop_before_wait, stop_after_wait,
                         stop_on_redraw, is_launched, is_running,
                         control_flow, waker, start_time, wait_timeout,
                         pending_redraw, proxy_wake_up, DispatchVars>>
    /\ ~exit /\ exit' => Exit
    /\ FinishStep =>
          /\ Added[1] = Returned
          /\ exit => Added[2] = Stopped
          /\ ~exit /\ ~stop_before_wait => ~AddedEvent("stop")

C19_ExitRequest == [][C19_Step]_vars

(* A cleared found the exit request and stopped the loop after            *)
(* about_to_wait.                                                         *)
C19_Witness ==
    /\ ClearedCycle /\ exit /\ Len(trace) = 4
    /\ trace[1].k = "about_to_wait" /\ trace[3] = Stopped

(* The deadline cleared arms the waker with. *)
SleepDeadline == min_timeout(wait_timeout, app_timeout(control_flow, now))

(* C20, as amended: when the about_to_wait callback of a cleared has      *)
(* returned, the native loop is told to stop once if the exit flag is set *)
(* and once if stop_before_wait is set, and is not told to stop if        *)
(* neither is; in every case, stop or no stop, start_time is set to now   *)
(* and the waker is re-armed with the earlier of the pump deadline and    *)
(* the control-flow deadline.                                             *)
C20_Step ==
    FinishStep =>
        /\ Added = <<Returned>>
                    \o (IF exit THEN <<Stopped>> ELSE <<>>)
                    \o (IF stop_before_wait THEN <<Stopped>> ELSE <<>>)
                    \o <<Ev("start_at", SleepDeadline)>>
        /\ start_time' = now
        /\ waker' = [started |-> waker.started, deadline |-> SleepDeadline]

C20_ClearedEnd == [][C20_Step]_vars

(* C20 as stated: with a stop signalled the coordinator does not go to    *)
(* sleep: start_time is not recorded and the waker is not re-armed.       *)
C20_StepOriginal ==
    FinishStep =>
        IF exit \/ stop_before_wait
        THEN /\ AddedEvent("stop") /\ ~AddedEvent("start_at")
             /\ start_time' = start_time /\ waker' = waker
        ELSE /\ ~AddedEvent("stop") /\ AddedEvent("start_at")
             /\ start_time' = now /\ waker'.deadline = SleepDeadline

C20_Original == [][C20_StepOriginal]_vars

(* A cleared stopped the loop for stop_before_wait and still recorded the *)
(* start of the wait and armed the waker.                                 *)
C20_Witness ==
    /\ ClearedCycle /\ stop_before_wait /\ ~exit
    /\ HasEvent("stop") /\ start_time # None /\ waker.deadline # None

(* The callbacks of a running session. *)
SessionKinds ==
    {"new_events", "window_event", "proxy_wake_up", "about_to_wait", "user"}

(* C21: exiting() is the terminal callback of a session: internal_exit,   *)
(* called from the run loop with a handler installed, dispatches exiting  *)
(* once; and once internal_exit has ended a session (is_running false on  *)
(* the launched application) no entry point dispatches new_events,        *)
(* window_event, proxy_wake_up, about_to_wait or a window's callback      *)
(* until is_running is set again (no panic being propagated).             *)
C21_StepOriginal ==
    /\ cur = "none" /\ cur' = "internal_exit" /\ handler =>
          Added = <<Ev("exiting", 0)>>
    /\ is_launched /\ ~is_running /\ ~is_running' /\ ~panicking =>
          \A i \in 1..Len(Added) : Added[i].k \notin SessionKinds

C21_Original == [][C21_StepOriginal]_vars

(* The run loop calls handle_redraw while nothing is dispatched. *)
RedrawCall == cur = "none" /\ cur' = "handle_redraw"
(* The callback dispatched by handle_redraw returns. *)
RedrawReturn ==
    /\ stack # <<>> /\ Last(stack).op = "handle_redraw"
    /\ Added # <<>> /\ Added[1] = Returned

(* C22, as amended: handle_redraw(w) called while no dispatch is in       *)
(* progress and a handler is installed dispatches window_event(w,         *)
(* RedrawRequested) once, synchronously, and signals no stop before the   *)
(* callback has returned; when the callback returns, the native loop is   *)
(* told to stop, once, exactly if stop_on_redraw is set.  With no handler *)
(* installed nothing is dispatched, and the stop is still signalled if    *)
(* stop_on_redraw is set.  Called from inside a callback, handle_redraw   *)
(* does nothing.                                                          *)
C22_Step ==
    /\ RedrawCall /\ handler =>
          /\ Len(Added) = 1 /\ Added[1].k = "window_event"
          /\ stack' = <<Frame("handle_redraw", "window_event", <<>>,
                              Added[1].a)>>
          /\ \E w \in WindowId : Added[1].a = w /\ HandleRedraw(w)
    /\ RedrawCall /\ ~handler =>
          /\ Added = IF stop_on_redraw THEN <<Stopped>> ELSE <<>>
          /\ stack' = <<>>
    /\ RedrawReturn =>
          /\ Added = <<Returned>>
                      \o (IF stop_on_redraw THEN <<Stopped>> ELSE <<>>)
          /\ stack' = <<>>
    /\ InCallback /\ (\E w \in WindowId : HandleRedraw(w)) =>
          UNCHANGED <<CoordVars, DispatchVars>>

C22_StepOriginal ==
    /\ RedrawCall /\ is_running =>
          Len(Added) = 1 /\ Added[1].k = "window_event"
    /\ cur' = "handle_redraw" /\ is_running /\ AddedEvent("stop") =>
          RedrawReturn

RedrawDispatched(w) ==
    /\ stack # <<>> /\ stack[1].op = "cleared"
    /\ stack[1].pc = "window_event" /\ stack[1].a = w

(* C23: every queue_redraw(w), whether or not w was already pending,      *)
(* nudges the native run loop; and under ControlFlow::Wait, in a running  *)
(* session with a handler installed, a window that is pending is          *)
(* eventually dispatched RedrawRequested by a cleared, the nudge being    *)
(* the only thing that wakes the loop.                                    *)
C23_Nudge == [][(\E w \in WindowId : QueueRedraw(w)) => nudged']_vars
C23_Serviced ==
    \A w \in WindowId :
        (Contains(pending_redraw, w) /\ is_running /\ handler)
            ~> RedrawDispatched(w)
C23_QueuedRedrawServiced == C23_Nudge /\ C23_Serviced

(* A queued window is being redrawn by a cleared of the sleeping loop,    *)
(* which only the nudge can have woken.                                   *)
C23_Witness ==
    /\ \E w \in WindowId : RedrawDispatched(w) /\ w \in drained
    /\ control_flow = Wait /\ ~nudged /\ waker.deadline = None

C27_Step ==
    FinishStep =>
        LET bound == CASE control_flow = Wait -> None
                       [] control_flow = Poll -> now
                       [] OTHER -> control_flow.t
            d == waker'.deadline
        IN  /\ Last(Added) = Ev("start_at", d)
            /\ d \in {wait_timeout, bound}
            /\ d = None <=> (wait_timeout = None /\ bound = None)
            /\ wait_timeout # None => d <= wait_timeout
            /\ bound # None => d <= bound

C27_SleepDeadline == [][C27_Step]_vars

(* Under Poll a cleared armed the waker with the pump deadline, which was *)
(* earlier than the current instant.                                      *)
C27_Witness ==
    /\ Completed("cleared") /\ control_flow = Poll
    /\ wait_timeout # None /\ wait_timeout < now
    /\ waker.deadline = wait_timeout /\ Last(trace).k = "start_at"

(* The exiting callback dispatched by internal_exit returns. *)
ExitingReturn ==
    /\ stack # <<>> /\ Last(stack).op = "internal_exit"
    /\ Added # <<>> /\ Added[1] = Returned

(* C28: internal_exit dispatches exiting() before it resets anything: the *)
(* step that dispatches exiting changes no field of the coordinator, so   *)
(* the callback runs with is_running, the stop flags and wait_timeout as  *)
(* the session left them; the reset (is_running, stop_on_redraw,          *)
(* stop_before_wait, stop_after_wait false, wait_timeout none) is made by *)
(* the step in which the callback returns, and is_running is taken from   *)
(* true to false by no other step, except an internal_exit that finds no  *)
(* handler installed and so has no callback to wait for.                  *)
C28_Step ==
    /\ AddedEvent("exiting") =>
          /\ UNCHANGED CoordVars
          /\ Last(stack').op = "internal_exit" /\ Last(stack').pc = "exiting"
    /\ ExitingReturn =>
          /\ ~is_running' /\ ~stop_on_redraw' /\ ~stop_before_wait'
          /\ ~stop_after_wait' /\ wait_timeout' = None
    /\ is_running /\ ~is_running' =>
          \/ ExitingReturn
          \/ cur = "none" /\ cur' = "internal_exit" /\ ~handler

C28_ExitingBeforeReset == [][C28_Step]_vars

(* exiting() is running and sees the session's state: is_running, a pump  *)
(* checkpoint and the pump deadline still set.                            *)
C28_Witness ==
    /\ cur = "internal_exit" /\ Len(stack) = 1
    /\ stack[1].op = "internal_exit" /\ stack[1].pc = "exiting"
    /\ is_running /\ stop_before_wait /\ stop_on_redraw
    /\ wait_timeout # None

(* C29: internal_exit resets control_flow to its default: when the        *)
(* exiting callback of a running session has returned and internal_exit   *)
(* has run to its end, control_flow is Wait, whatever the session had set. *)
C29_Original ==
    [][ExitingReturn /\ is_running /\ ~panicking => control_flow' = Wait]_vars

(* A panic left the cycle of cleared whole: every window whose request    *)
(* the cycle took was dispatched or is still pending.                     *)
C30_CycleWhole ==
    panicking /\ cur = "cleared" =>
        \A w \in drained : RedrawCount(w) >= 1 \/ Contains(pending_redraw, w)

(* The fields of AppState that only the main thread writes. *)
MainThreadFields ==
    <<stop_on_launch, stop_before_wait, stop_after_wait, stop_on_redraw,
      is_launched, is_running, exit, control_flow, waker, start_time,
      wait_timeout, pending_redraw>>

(* C30: from the step that records a panic until the step that re-raises  *)
(* it, no entry point changes a field of the coordinator; and a panic     *)
(* inside one of cleared's dispatches does not leave the cycle half       *)
(* applied: no redraw request taken out of pending_redraw is lost         *)
(* undispatched.                                                          *)
C30_StepOriginal ==
    /\ panicking' => C30_CycleWhole'
    /\ panicking /\ panicking' => UNCHANGED MainThreadFields

C30_Original == [][C30_StepOriginal]_vars

(* C31, as amended: the handler is installed exactly for the duration of  *)
(* the closure of set_event_handler: it is installed where none was, it   *)
(* is uninstalled when the closure returns or unwinds, which leaves the   *)
(* cell as it was before the call, and no entry point of the coordinator  *)
(* and no callback installs or uninstalls it.  A callback is on the stack *)
(* (in_use) only while a handler is installed, and the handler is never   *)
(* uninstalled under a running callback.  ready() is true inside the      *)
(* closure exactly between dispatches: while a callback runs, in_use() is *)
(* true and ready() is false.                                             *)
C31_Installed ==
    /\ in_use(St) => handler
    /\ ready(St) <=> handler /\ ~in_use(St)
C31_Step ==
    /\ ~handler /\ handler' => SetEventHandler
    /\ handler /\ ~handler' =>
          /\ EndEventHandler \/ ResumeUnwind
          /\ ~in_use(St)
    /\ handler /\ in_use(St) => handler'

ResetStep ==
    \/ ExitingReturn
    \/ cur = "none" /\ cur' = "internal_exit" /\ ~handler

(* The stop flags, the pump deadline, the control flow and the exit       *)
(* request change only in a step of their setter, and the four fields     *)
(* that internal_exit resets also in the step of that reset; exit is also *)
(* cleared by the event loop before the native run that launches.         *)
C32_SetterOnly ==
    /\ stop_on_launch' # stop_on_launch => SetStopOnLaunch
    /\ stop_before_wait' # stop_before_wait =>
          (\E v \in BOOLEAN : SetStopBeforeWait(v)) \/ ResetStep
    /\ stop_after_wait' # stop_after_wait =>
          (\E v \in BOOLEAN : SetStopAfterWait(v)) \/ ResetStep
    /\ stop_on_redraw' # stop_on_redraw =>
          (\E v \in BOOLEAN : SetStopOnRedraw(v)) \/ ResetStep
    /\ wait_timeout' # wait_timeout =>
          (\E v \in OptInstant : SetWaitTimeout(v)) \/ ResetStep
    /\ control_flow' # control_flow =>
          \E cf \in ControlFlow : SetControlFlow(cf)
    /\ exit' # exit => Exit \/ Launch

(* C32, as amended: wakeup, cleared and handle_redraw only read the stop  *)
(* flags and wait_timeout and modify none of them, nor is_running,        *)
(* control_flow or exit, whether they signal a stop or not; the same      *)
(* holds of did_finish_launching except that it sets is_running to true.  *)
(* These fields change only through their setters and internal_exit.      *)
C32_Step ==
    /\ C32_SetterOnly
    /\ is_running' # is_running => ResetStep \/ (Launch /\ is_running')

C32_StepOriginal ==
    /\ C32_SetterOnly
    /\ is_running' # is_running => ResetStep

WakeupPasses == cur # "wakeup" /\ cur' = "wakeup" /\ ~Guarded

(* C33: with the run loop calling cleared before every wait and wakeup    *)
(* after it, a wakeup that passes its guards (no panic propagating, a     *)
(* handler ready, is_running true) finds start_time set and dispatches    *)
(* new_events: no order of launch, sessions, handler installation,        *)
(* internal_exit, panics and cleared calls that returned on a guard makes *)
(* it read an unset start_time.                                           *)
C33_Step ==
    WakeupPasses =>
        /\ start_time # None
        /\ stack' # <<>> /\ Last(stack').pc = "new_events"
        /\ Last(trace').k = "new_events" /\ ~panicking'

C34_Step ==
    /\ RedrawCall \/ RedrawReturn => pending_redraw' = pending_redraw
    /\ InCallback /\ (\E w \in WindowId : HandleRedraw(w)) =>
          UNCHANGED <<CoordVars, DispatchVars, nudged, requested>>

C34_RedrawBusyNoop == [][C34_Step]_vars

(* A callback is running with stop_on_redraw set and a window pending: a  *)
(* handle_redraw made now finds the cell in use.                          *)
C34_Witness ==
    /\ in_use(St) /\ stop_on_redraw /\ pending_redraw # <<>>
    /\ is_running /\ ~HasEvent("stop")
    /\ \E w \in WindowId : ENABLED HandleRedraw(w)

(* ------------------------------- C35 ---------------------------------- *)
(* What one call of create_context does to the entries of the other        *)
(* windows: nothing.                                                       *)
OthersKept(m, r, window) ==
    \A w \in WindowId : w # window => r.contexts[w] = m.contexts[w]

(* create_context performed its action: the window has a context that was *)
(* not there before, and the one event the call sent tells whether that    *)
(* context allows IME.                                                     *)
Performed(m, r, window) ==
    /\ r.contexts[window].kind = "some"
    /\ r.contexts[window] # m.contexts[window]
    /\ r.events =
          <<<<window, IF is_ime_allowed(r, window) THEN "Enabled"
                      ELSE "Disabled">>>>
    /\ OthersKept(m, r, window)

C35_Call(window, with_ime, new) ==
    LET m == Entered
        r == create_context(m, window, with_ime, new)
    IN  /\ r.ret = OkTrue <=> Performed(m, r, window)
        /\ ~is_destroyed(m) /\ new.ok => Performed(m, r, window)
        /\ is_destroyed(m) =>
              /\ r.contexts[window] = Placeholder
              /\ OthersKept(m, r, window)
              /\ r.events = <<>>
              /\ r.ret = OkFalse
        /\ ~is_destroyed(m) /\ ~new.ok =>
              /\ r.contexts = m.contexts
              /\ r.events = <<>>
              /\ r.ret = Err
        /\ r.native = {}
        /\ r.is_destroyed = m.is_destroyed

(* C35: create_context returns Ok(true) exactly when it performed its      *)
(* action.  On an input method that is not destroyed it stores a context   *)
(* for the window and sends exactly one event for it, Enabled if the       *)
(* context allows IME and Disabled otherwise; on a destroyed one it stores *)
(* an empty placeholder entry, sends no event and returns Ok(false); when  *)
(* ImeContext::new fails the contexts map is unchanged and no event is     *)
(* sent.  Checked for every call that can be made in every reachable state *)
(* of the input method.                                                    *)
C35_CreateContextResult ==
    \A w \in WindowId, with_ime \in BOOLEAN, new \in NewContext :
        C35_Call(w, with_ime, new)

(* A call on a live input method stored a context that does not allow IME  *)
(* and sent Disabled for it.                                               *)
C35_Witness ==
    /\ ime.op = "create_context" /\ ime.ret = OkTrue
    /\ ime.contexts[ime.window].kind = "some"
    /\ ~ime.contexts[ime.window].allowed
    /\ ime.events = <<<<ime.window, "Disabled">>>>

(* ------------------------------- C36 ---------------------------------- *)
(* The call that took m to r changed nothing but the value it returned.    *)
Inert(m, r) == [r EXCEPT !.ret = m.ret] = m

C36_PerWindow(m, window) ==
    /\ get_context(m, window) = None
    /\ ~is_ime_allowed(m, window)
    /\ Inert(m, send_xim_area(m, window))
    /\ \A ok \in BOOLEAN :
          /\ focus(m, window, ok).ret = OkFalse
          /\ Inert(m, focus(m, window, ok))
          /\ unfocus(m, window, ok).ret = OkFalse
          /\ Inert(m, unfocus(m, window, ok))
          /\ \A allowed \in BOOLEAN, new \in NewContext :
                Inert(m, set_ime_allowed(m, window, allowed, ok, new))

C36_Native(m) ==
    \A ok \in BOOLEAN :
        /\ \A ic \in 1..MaxContexts :
              /\ destroy_ic_if_necessary(m, ic, ok).ret = OkFalse
              /\ Inert(m, destroy_ic_if_necessary(m, ic, ok))
        /\ close_im_if_necessary(m, ok).ret = OkFalse
        /\ Inert(m, close_im_if_necessary(m, ok))
        /\ \A order \in IterOrder, bad \in {0} \cup WindowId :
              /\ destroy_all_contexts_if_necessary(m, order, bad).ret = OkFalse
              /\ Inert(m, destroy_all_contexts_if_necessary(m, order, bad))

(* C36: while the input method is destroyed every per-window operation is  *)
(* inert, whatever the contexts map holds: get_context returns None,       *)
(* is_ime_allowed false, focus and unfocus Ok(false); send_xim_area and    *)
(* set_ime_allowed change nothing; destroy_ic_if_necessary,                *)
(* close_im_if_necessary and destroy_all_contexts_if_necessary make no     *)
(* native destroy or close call and return Ok(false).                      *)
C36_DestroyedInert ==
    ime.is_destroyed =>
        /\ \A w \in WindowId : C36_PerWindow(Entered, w)
        /\ C36_Native(Entered)

(* set_ime_allowed has just been called for a window that still has the   *)
(* context it was given before the server destroyed the input method.      *)
C36_Witness ==
    /\ ime.is_destroyed /\ ime.op = "set_ime_allowed"
    /\ ime.contexts[ime.window].kind = "some"
    /\ \E w \in WindowId : ime.contexts[w] = Placeholder
    /\ ime.native = {} /\ ime.events = <<>>

(* ------------------------------- C37 ---------------------------------- *)
(* The window's context already reports the value asked for. *)
AlreadyAllowed(m, window, allowed) ==
    /\ m.contexts[window].kind = "some"
    /\ is_ime_allowed(m, window) = allowed

(* set_ime_allowed replaced the window's entry: the context it had, if     *)
(* any, left the map and its XIC was handed to XDestroyIC; the context     *)
(* ImeContext::new made, if it made one, is the window's entry and one     *)
(* event was sent for it; otherwise the window has no entry.               *)
Replaced(m, r, window, ok, new) ==
    LET old == m.contexts[window]
    IN  /\ old.kind = "some" =>
              /\ r.native = {NativeCall("destroy_ic", old.ic, ok)}
              /\ \A w \in WindowId : r.contexts[w] # old
        /\ old.kind # "some" => r.native = {}
        /\ new.ok =>
              /\ r.contexts[window] = Context(m.next_ic, new.allowed)
              /\ is_ime_allowed(r, window) = new.allowed
              /\ Len(r.events) = 1 /\ r.events[1][1] = window
        /\ ~new.ok => r.contexts[window] = Absent /\ r.events = <<>>
        /\ OthersKept(m, r, window)
        /\ ~r.is_destroyed

C37_Call(window, allowed, ok, new) ==
    LET m == Entered
        r == set_ime_allowed(m, window, allowed, ok, new)
        again == [r EXCEPT !.events = <<>>, !.native = {}]
    IN  IF AlreadyAllowed(m, window, allowed)
        THEN Inert(m, r)
        ELSE /\ Replaced(m, r, window, ok, new)
             /\ AlreadyAllowed(r, window, allowed) =>
                   \A ok2 \in BOOLEAN, new2 \in NewContext :
                       Inert(again,
                             set_ime_allowed(again, window, allowed, ok2, new2))

====
